---- MODULE Spec2Model ----
(***************************************************************************)
(* Huffman coding (src/huffman.c): tree construction from a frequency      *)
(* table, code table generation, encoding, two-pass decoding, release of   *)
(* a tree, and packing/unpacking of bit strings.                           *)
(*                                                                         *)
(* The C heap is the sequence mem of htree_node records; a pointer is an   *)
(* index into it and NULL is 0.  Bit strings are sequences of one-char     *)
(* strings, the terminating NUL left implicit except where the code        *)
(* writes into a zeroed buffer.                                            *)
(***************************************************************************)
EXTENDS Integers, Sequences, FiniteSets, TLC

VARIABLES pc, table, src, mem, Q, tree1, tree2, H, codetable, code,
          node, i, count, array_ind, src_len, res, msg, bytes, bits,
          stack, freed, uaf

vars == <<pc, table, src, mem, Q, tree1, tree2, H, codetable, code,
          node, i, count, array_ind, src_len, res, msg, bytes, bits,
          stack, freed, uaf>>

(* ------------------------------ bounds -------------------------------- *)

\* size of the symbol alphabet (256 in the program)
NUM_SYMBOLS == 3
\* largest count in a frequency table
MaxFreq == 3
\* longest symbol sequence given to encode_src
MaxSrcLen == 2
\* most leaves of a tree handed directly to a tree-consuming function
MaxLeaves == 3
\* longest bit string handed directly to decode_src
MaxCodeLen == 3
\* longest bit string handed to pack
MaxBits == 9

Symbols == 0 .. (NUM_SYMBOLS - 1)
NULL == 0
\* a NULL entry of a code table
NoEntry == <<"NULL">>
NUL == "\\0"
Bit == {"0", "1"}

RECURSIVE SeqsUpTo(_, _)
SeqsUpTo(S, n) ==
  IF n = 0 THEN {<<>>}
  ELSE LET shorter == SeqsUpTo(S, n - 1)
       IN shorter \cup {Append(s, x) : s \in {t \in shorter : Len(t) = n - 1}, x \in S}

(* -------------------- Task 1: data structure invariants ---------------- *)

RECURSIVE is_htree(_, _)

is_htree_leaf(m, p) ==
  IF p = NULL THEN FALSE
  ELSE IF m[p].frequency <= 0 THEN FALSE
  ELSE m[p].left = NULL /\ m[p].right = NULL

is_htree_interior(m, p) ==
  IF p = NULL THEN FALSE
  ELSE IF ~(is_htree(m, m[p].left) /\ is_htree(m, m[p].right)) THEN FALSE
  ELSE m[p].frequency = m[m[p].left].frequency + m[m[p].right].frequency

is_htree(m, p) ==
  IF p = NULL THEN FALSE
  ELSE is_htree_leaf(m, p) \/ is_htree_interior(m, p)

(* ----------------------- Task 2: building the tree --------------------- *)

htree_higher_priority_reversed(m, e1, e2) == m[e1].frequency > m[e2].frequency

\* strictly higher priority = strictly lower frequency
htree_higher_priority(m, e1, e2) == m[e1].frequency < m[e2].frequency

\* the priority queue library: a collection of elements, pq_rem returns an
\* element that no other element strictly precedes
pq_empty(q) == q = {}
pq_full(q) == Cardinality(q) = NUM_SYMBOLS
pq_add(q, e) == q \cup {e}
pq_rem_choices(m, q) == {e \in q : \A o \in q : ~htree_higher_priority(m, o, e)}

new_leaf(v, f) == [value |-> v, frequency |-> f, left |-> NULL, right |-> NULL]

\* the leaves build_pq allocates, in the order of its loop over the symbols
RECURSIVE build_pq_nodes(_, _)
build_pq_nodes(t, k) ==
  IF k = NUM_SYMBOLS THEN <<>>
  ELSE IF t[k] > 0 THEN <<new_leaf(k, t[k])>> \o build_pq_nodes(t, k + 1)
  ELSE build_pq_nodes(t, k + 1)

build_pq_too_few_lax(char_count) == char_count < 1

build_pq_too_few(char_count) == char_count < 2

\* pq_new and build_pq: one leaf per symbol with nonzero frequency is
\* allocated and queued; then the program exits when fewer than 2 were found
BuildPq ==
  /\ pc = "build_pq"
  /\ LET leaves == build_pq_nodes(table, 0)
         char_count == Len(leaves)
     IN /\ mem' = leaves
        /\ Q' = 1 .. char_count
        /\ IF build_pq_too_few(char_count)
           THEN /\ pc' = "exit"
                /\ msg' = "Only 0 or 1 distinct character in the text"
           ELSE /\ pc' = "merge"
                /\ msg' = msg
  /\ UNCHANGED <<table, src, tree1, tree2, H, codetable, code, node, i, count,
                 array_ind, src_len, res, bytes, bits, stack, freed, uaf>>

merge_frequency_first(m, t1, t2) == m[t1].frequency

merge_frequency(m, t1, t2) == m[t1].frequency + m[t2].frequency

merge_children_strict(m, t1, t2) ==
  IF m[t1].frequency < m[t2].frequency THEN <<t1, t2>> ELSE <<t2, t1>>

\* <<left, right>> of the new root
merge_children(m, t1, t2) ==
  IF m[t1].frequency <= m[t2].frequency THEN <<t1, t2>> ELSE <<t2, t1>>

\* one iteration of the while loop of build_htree
MergeStep ==
  /\ pc = "merge"
  /\ ~pq_empty(Q)
  /\ \E t1 \in pq_rem_choices(mem, Q) :
       LET Q1 == Q \ {t1}
       IN IF pq_empty(Q1)
          THEN /\ H' = t1
               /\ pc' = "built"
               /\ tree1' = t1
               /\ Q' = Q1
               /\ UNCHANGED <<mem, tree2>>
          ELSE \E t2 \in pq_rem_choices(mem, Q1) :
                 LET kids == merge_children(mem, t1, t2)
                     root == Len(mem) + 1
                 IN /\ mem' = Append(mem, [value |-> 0,
                                           frequency |-> merge_frequency(mem, t1, t2),
                                           left |-> kids[1], right |-> kids[2]])
                    /\ Q' = pq_add(Q1 \ {t2}, root)
                    /\ tree1' = t1
                    /\ tree2' = t2
                    /\ UNCHANGED <<H, pc>>
  /\ UNCHANGED <<table, src, codetable, code, node, i, count, array_ind, src_len,
                 res, msg, bytes, bits, stack, freed, uaf>>

(* ----------------------- Task 4: the code table ------------------------ *)

next_path_unextended(prev_string, b) == prev_string

\* xcalloc, strcpy and strcat of one character onto the path so far
next_path(prev_string, b) == Append(prev_string, b)

RECURSIVE htree_to_codetable_body(_, _, _, _)
htree_to_codetable_body(m, p, tab, prev_string) ==
  IF is_htree_leaf(m, p)
  THEN [tab EXCEPT ![m[p].value] = prev_string]
  ELSE LET after_left == htree_to_codetable_body(m, m[p].left, tab,
                                                 next_path(prev_string, "0"))
       IN htree_to_codetable_body(m, m[p].right, after_left,
                                  next_path(prev_string, "1"))

htree_to_codetable(m, p) ==
  htree_to_codetable_body(m, p, [s \in Symbols |-> NoEntry], <<>>)

HtreeToCodetable ==
  /\ pc = "built"
  /\ codetable' = htree_to_codetable(mem, H)
  /\ pc' = "coded"
  /\ UNCHANGED <<table, src, mem, Q, tree1, tree2, H, code, node, i, count,
                 array_ind, src_len, res, msg, bytes, bits, stack, freed, uaf>>

(* --------------------------- Task 5: encoding -------------------------- *)

strlen(bs) == Len(bs)

RECURSIVE get_size_from(_, _, _)
get_size_from(tab, s, k) ==
  IF k > Len(s) THEN 0 ELSE strlen(tab[s[k]]) + get_size_from(tab, s, k + 1)

get_size(tab, s) == get_size_from(tab, s, 1)

\* strcpy(target + at, bs): the characters of bs and the terminating NUL
strcpy_at(target, at, bs) ==
  [k \in 1 .. Len(target) |->
     IF k > at /\ k <= at + Len(bs) THEN bs[k - at]
     ELSE IF k = at + Len(bs) + 1 THEN NUL
     ELSE target[k]]

RECURSIVE populate_bstring(_, _, _, _, _)
populate_bstring(target_bs, tab, s, k, curr_ind) ==
  IF k > Len(s) THEN target_bs
  ELSE populate_bstring(strcpy_at(target_bs, curr_ind, tab[s[k]]), tab, s,
                        k + 1, curr_ind + strlen(tab[s[k]]))

\* the C string held by a buffer: its characters before the first NUL
c_string(buf) ==
  LET n == CHOOSE n \in 0 .. Len(buf) :
             /\ \A k \in 1 .. n : buf[k] # NUL
             /\ n = Len(buf) \/ buf[n + 1] = NUL
  IN SubSeq(buf, 1, n)

encode_src(tab, s) ==
  LET res_size == get_size(tab, s) + 1
      zeroed == [k \in 1 .. res_size |-> NUL]
  IN c_string(populate_bstring(zeroed, tab, s, 1, 0))

EncodeSrc ==
  /\ pc = "coded"
  /\ code' = encode_src(codetable, src)
  /\ pc' = "encoded"
  /\ UNCHANGED <<table, src, mem, Q, tree1, tree2, H, codetable, node, i, count,
                 array_ind, src_len, res, msg, bytes, bits, stack, freed, uaf>>

(* --------------------------- Task 3: decoding -------------------------- *)

descend_swapped(m, n, c) == IF c = "0" THEN m[n].right ELSE m[n].left

\* '0' goes left; every other character goes right
descend(m, n, c) == IF c = "0" THEN m[n].left ELSE m[n].right

find_len_invalid_never(n, root) == FALSE

find_len_invalid(n, root) == n # root

\* the body of the loop of find_len on character c; st is <<node, res>>
find_len_step(m, root, st, c) ==
  LET next == descend(m, st.node, c)
  IN IF is_htree_leaf(m, next)
     THEN [node |-> root, res |-> st.res + 1]
     ELSE [node |-> next, res |-> st.res]

\* the body of the loop of parse_code on character c
parse_code_step(m, root, st, c) ==
  LET next == descend(m, st.node, c)
  IN IF is_htree_leaf(m, next)
     THEN [node |-> root,
           res |-> [st.res EXCEPT ![st.array_ind + 1] = m[next].value],
           array_ind |-> st.array_ind + 1]
     ELSE [node |-> next, res |-> st.res, array_ind |-> st.array_ind]

\* the loops, from the character at offset k - 1 (each iteration's state is
\* bound as a value before the next iteration reads it)
RECURSIVE find_len_loop(_, _, _, _, _)
find_len_loop(m, root, c, k, st) ==
  IF k > Len(c) THEN st
  ELSE CHOOSE end \in {find_len_loop(m, root, c, k + 1, nxt) :
                         nxt \in {find_len_step(m, root, st, c[k])}} : TRUE

RECURSIVE parse_code_loop(_, _, _, _, _)
parse_code_loop(m, root, c, k, st) ==
  IF k > Len(c) THEN st
  ELSE CHOOSE end \in {parse_code_loop(m, root, c, k + 1, nxt) :
                         nxt \in {parse_code_step(m, root, st, c[k])}} : TRUE

\* a call of decode_src: find_len, which may exit, then parse_code
DecodeSrc ==
  /\ pc = "encoded"
  /\ \E found \in {find_len_loop(mem, H, code, 1, [node |-> H, res |-> 0])} :
       /\ i' = Len(code)
       /\ count' = found.res
       /\ IF find_len_invalid(found.node, H)
          THEN /\ pc' = "exit"
               /\ msg' = "Invalid code to decode!"
               /\ node' = found.node
               /\ UNCHANGED <<array_ind, src_len, res>>
          ELSE \E parsed \in {parse_code_loop(mem, H, code, 1,
                                  [node |-> H, array_ind |-> 0,
                                   res |-> [k \in 1 .. found.res |-> 0]])} :
                 /\ pc' = "decoded"
                 /\ src_len' = found.res
                 /\ res' = parsed.res
                 /\ node' = parsed.node
                 /\ array_ind' = parsed.array_ind
                 /\ msg' = msg
  /\ UNCHANGED <<table, src, mem, Q, tree1, tree2, H, codetable, code,
                 bytes, bits, stack, freed, uaf>>

\* The same call taken one loop iteration at a time.
\* decode_src is entered and find_len initialises its loop
FindLenStart ==
  /\ pc = "encoded"
  /\ pc' = "find_len"
  /\ node' = H
  /\ i' = 0
  /\ count' = 0
  /\ UNCHANGED <<table, src, mem, Q, tree1, tree2, H, codetable, code,
                 array_ind, src_len, res, msg, bytes, bits, stack, freed, uaf>>

\* one iteration of the loop of find_len
FindLenStep ==
  /\ pc = "find_len"
  /\ i < Len(code)
  /\ LET st == find_len_step(mem, H, [node |-> node, res |-> count], code[i + 1])
     IN count' = st.res /\ node' = st.node
  /\ i' = i + 1
  /\ UNCHANGED <<pc, table, src, mem, Q, tree1, tree2, H, codetable, code,
                 array_ind, src_len, res, msg, bytes, bits, stack, freed, uaf>>

\* the end of find_len, and in decode_src the store of the length, the
\* allocation of the result and the initialisation of parse_code
FindLenEnd ==
  /\ pc = "find_len"
  /\ i = Len(code)
  /\ IF find_len_invalid(node, H)
     THEN /\ pc' = "exit"
          /\ msg' = "Invalid code to decode!"
          /\ UNCHANGED <<node, i, array_ind, src_len, res>>
     ELSE /\ pc' = "parse_code"
          /\ src_len' = count
          /\ res' = [k \in 1 .. count |-> 0]
          /\ node' = H
          /\ i' = 0
          /\ array_ind' = 0
          /\ msg' = msg
  /\ UNCHANGED <<table, src, mem, Q, tree1, tree2, H, codetable, code, count,
                 bytes, bits, stack, freed, uaf>>

\* one iteration of the loop of parse_code
ParseStep ==
  /\ pc = "parse_code"
  /\ i < Len(code)
  /\ LET st == parse_code_step(mem, H,
                               [node |-> node, res |-> res, array_ind |-> array_ind],
                               code[i + 1])
     IN res' = st.res /\ array_ind' = st.array_ind /\ node' = st.node
  /\ i' = i + 1
  /\ UNCHANGED <<pc, table, src, mem, Q, tree1, tree2, H, codetable, code, count,
                 src_len, msg, bytes, bits, stack, freed, uaf>>

\* parse_code returns and decode_src returns the array
ParseEnd ==
  /\ pc = "parse_code"
  /\ i = Len(code)
  /\ pc' = "decoded"
  /\ UNCHANGED <<table, src, mem, Q, tree1, tree2, H, codetable, code, node, i,
                 count, array_ind, src_len, res, msg, bytes, bits, stack, freed, uaf>>

(* ------------------------- the full pipeline --------------------------- *)

\* *src_len before decode_src has stored a length
Unset == 0 - 1

Idle ==
  /\ mem = <<>> /\ Q = {} /\ tree1 = NULL /\ tree2 = NULL /\ H = NULL
  /\ codetable = [s \in Symbols |-> NoEntry]
  /\ node = NULL /\ i = 0 /\ count = 0 /\ array_ind = 0
  /\ src_len = Unset /\ res = <<>> /\ msg = ""
  /\ bytes = <<>> /\ bits = <<>> /\ stack = <<>> /\ freed = <<>> /\ uaf = FALSE

\* a frequency table and a symbol sequence over its symbols of nonzero frequency
Init ==
  /\ pc = "build_pq"
  /\ table \in [Symbols -> 0 .. MaxFreq]
  /\ src \in SeqsUpTo({s \in Symbols : table[s] > 0}, MaxSrcLen)
  /\ code = <<>>
  /\ Idle

Next ==
  \/ BuildPq
  \/ MergeStep
  \/ HtreeToCodetable
  \/ EncodeSrc
  \/ DecodeSrc

Spec == Init /\ [][Next]_vars

(* ------------------ claims about the full pipeline --------------------- *)

freq(m, p) == m[p].frequency

RECURSIVE LeavesOf(_, _)
LeavesOf(m, p) ==
  IF m[p].left = NULL /\ m[p].right = NULL THEN {p}
  ELSE LeavesOf(m, m[p].left) \cup LeavesOf(m, m[p].right)

RECURSIVE NodesOf(_, _)
NodesOf(m, p) ==
  IF m[p].left = NULL /\ m[p].right = NULL THEN {p}
  ELSE {p} \cup NodesOf(m, m[p].left) \cup NodesOf(m, m[p].right)

NonzeroSymbols == {s \in Symbols : table[s] > 0}

AfterBuild == {"built", "coded", "encoded", "decoded"}

\* C1: decoding the encoding of a sequence over the symbols of nonzero
\* frequency never fails and returns exactly that sequence, with src_len its
\* length, whichever equal-frequency items the queue returned first; the
\* only exit is that of build_pq, and the merge loop never runs out of nodes.
C1_RoundTrip ==
  /\ pc = "decoded" => res = src /\ src_len = Len(src) /\ array_ind = Len(src)
  /\ pc = "exit" => H = NULL /\ code = <<>>
  /\ pc = "merge" => ~pq_empty(Q)

\* a two-symbol sequence decoded under a table with a tie
C1_Witness ==
  /\ pc = "decoded"
  /\ Len(src) = 2 /\ src[1] # src[2]
  /\ res = src
  /\ \E a, b \in Symbols : a # b /\ table[a] = table[b] /\ table[a] > 0

\* the empty sequence decoded
C1_WitnessEmpty == pc = "decoded" /\ src = <<>> /\ res = <<>> /\ src_len = 0

\* C2: with at least 2 nonzero entries build_htree returns (never exits with
\* an error) one tree holding every allocated node, which satisfies
\* is_htree and has exactly one leaf per symbol of nonzero frequency,
\* carrying its count, and no leaf for a symbol of frequency zero.
C2_BuildReturnsHtree ==
  /\ Cardinality(NonzeroSymbols) >= 2 => pc # "exit"
  /\ pc \in AfterBuild =>
       /\ is_htree(mem, H)
       /\ Q = {}
       /\ NodesOf(mem, H) = 1 .. Len(mem)
       /\ \A n \in NodesOf(mem, H) :
            IF mem[n].left = NULL
            THEN mem[n].right = NULL /\ freq(mem, n) > 0
            ELSE freq(mem, n) = freq(mem, mem[n].left) + freq(mem, mem[n].right)
       /\ \A s \in Symbols :
            LET ls == {l \in LeavesOf(mem, H) : mem[l].value = s}
            IN IF table[s] > 0
               THEN Cardinality(ls) = 1 /\ \A l \in ls : freq(mem, l) = table[s]
               ELSE ls = {}

\* a returned tree over all the symbols, one of them absent from no leaf
C2_Witness ==
  /\ pc = "built"
  /\ Cardinality(NonzeroSymbols) = NUM_SYMBOLS
  /\ Cardinality(LeavesOf(mem, H)) = NUM_SYMBOLS
  /\ \E a, b \in Symbols : table[a] # table[b]

\* C3: with fewer than 2 symbols of nonzero frequency build_htree exits
\* with the alphabet-too-small message: the merge loop never removes a node,
\* no interior node is created and no tree is returned.
C3_AlphabetTooSmall ==
  (Cardinality(NonzeroSymbols) < 2 /\ pc # "build_pq") =>
     /\ pc = "exit"
     /\ msg = "Only 0 or 1 distinct character in the text"
     /\ H = NULL /\ tree1 = NULL /\ tree2 = NULL
     /\ Len(mem) = Cardinality(NonzeroSymbols)

\* only one symbol has a nonzero count, and the build has exited
C3_Witness ==
  /\ pc = "exit"
  /\ Cardinality(NonzeroSymbols) = 1
  /\ table[0] > 0

\* C9: the root created by a merge step has the two removed nodes as its
\* children, the one of smaller-or-equal frequency on the left, and on
\* equal frequencies the first-removed node on the left; every interior node
\* has left.frequency <= right.frequency.
C9_MergeOrder ==
  /\ \A n \in 1 .. Len(mem) :
       mem[n].left # NULL => freq(mem, mem[n].left) <= freq(mem, mem[n].right)
  /\ (pc = "merge" /\ tree2 # NULL) =>
       LET root == mem[Len(mem)]
       IN /\ {root.left, root.right} = {tree1, tree2}
          /\ root.left # root.right
          /\ freq(mem, tree1) = freq(mem, tree2) =>
               root.left = tree1 /\ root.right = tree2

\* a merge of two nodes of equal frequency has just happened
C9_Witness ==
  /\ pc = "merge" /\ tree2 # NULL
  /\ freq(mem, tree1) = freq(mem, tree2)
  /\ mem[Len(mem)].left = tree1

(* ---------------------- the scenario "aaabbc" -------------------------- *)

ScenarioTable ==
  [s \in Symbols |-> CASE s = 0 -> 3 [] s = 1 -> 2 [] s = 2 -> 1 [] OTHER -> 0]

RECURSIVE CountOf(_, _)
CountOf(s, x) ==
  IF s = <<>> THEN 0
  ELSE (IF Head(s) = x THEN 1 ELSE 0) + CountOf(Tail(s), x)

\* the texts whose frequency table is ScenarioTable (build_freqtable counts
\* the occurrences of each symbol)
ScenarioTexts ==
  {s \in [1 .. 6 -> {0, 1, 2}] : \A x \in {0, 1, 2} : CountOf(s, x) = ScenarioTable[x]}

InitScenario ==
  /\ pc = "build_pq"
  /\ table = ScenarioTable
  /\ src \in ScenarioTexts
  /\ code = <<>>
  /\ Idle

SpecScenario == InitScenario /\ [][Next]_vars

\* C8: for {a:3, b:2, c:1}, whichever way the queue breaks the tie, a gets a
\* 1-bit code and b and c 2-bit codes, and the encoding of "aaabbc" is 9
\* bits long.
C8_ScenarioLengths ==
  /\ pc \in {"coded", "encoded", "decoded"} =>
       /\ \A s \in {0, 1, 2} : codetable[s] # NoEntry
       /\ Len(codetable[0]) = 1
       /\ Len(codetable[1]) = 2
       /\ Len(codetable[2]) = 2
       /\ get_size(codetable, src) = 9
  /\ pc \in {"encoded", "decoded"} => Len(code) = 9

\* "aaabbc" encoded in 9 bits with a = "0", b = "11", c = "10" (c, of the
\* lower frequency, is the left child of the first merge)
C8_Witness ==
  /\ pc = "encoded"
  /\ src = <<0, 0, 0, 1, 1, 2>>
  /\ code = <<"0", "0", "0", "1", "1", "1", "1", "1", "0">>

\* the other outcome of the tie between a and the merged node: a is "1"
C8_WitnessOtherTie ==
  /\ pc = "encoded"
  /\ src = <<0, 0, 0, 1, 1, 2>>
  /\ codetable[0] = <<"1">>

(* ------------- trees handed directly to a tree consumer ---------------- *)

\* the frequency given to a leaf of symbol v in such a tree
sample_frequency(v) == v + 1

\* the heaps holding one tree of n leaves in preorder from address base:
\* every tree shape, every assignment of symbols to the leaves, interior
\* frequencies the sums of their children's
RECURSIVE HeapsAt(_, _)
HeapsAt(n, base) ==
  IF n = 1 THEN {<<new_leaf(v, sample_frequency(v))>> : v \in Symbols}
  ELSE UNION {
         {<<[value |-> 0, frequency |-> l[1].frequency + r[1].frequency,
             left |-> base + 1, right |-> base + 2 * k]>> \o l \o r :
            l \in HeapsAt(k, base + 1), r \in HeapsAt(n - k, base + 2 * k)} :
         k \in 1 .. (n - 1)}

SampleHeaps(lo) == UNION {HeapsAt(n, 1) : n \in lo .. MaxLeaves}

IdleTree ==
  /\ table = [s \in Symbols |-> 0] /\ src = <<>>
  /\ Q = {} /\ tree1 = NULL /\ tree2 = NULL /\ H = 1
  /\ codetable = [s \in Symbols |-> NoEntry]
  /\ node = NULL /\ i = 0 /\ count = 0 /\ array_ind = 0
  /\ src_len = Unset /\ res = <<>> /\ msg = ""
  /\ bytes = <<>> /\ bits = <<>> /\ stack = <<>> /\ uaf = FALSE

(* ------------------ htree_to_codetable on any tree --------------------- *)

InitCodetable ==
  /\ pc = "built"
  /\ mem \in SampleHeaps(1)
  /\ is_htree(mem, 1)
  /\ code = <<>> /\ freed = <<>>
  /\ IdleTree

SpecCodetable == InitCodetable /\ [][HtreeToCodetable]_vars

LeafSymbols(m, p) == {m[l].value : l \in LeavesOf(m, p)}

IsBitString(bs) == bs # NoEntry /\ \A k \in 1 .. Len(bs) : bs[k] \in Bit

\* C6 as stated: every leaf symbol has a non-empty bit string, every other
\* symbol has no entry.
C6_NonEmptyForLeaves ==
  pc = "coded" =>
    \A s \in Symbols :
      IF s \in LeafSymbols(mem, H)
      THEN IsBitString(codetable[s]) /\ Len(codetable[s]) > 0
      ELSE codetable[s] = NoEntry

\* C6 amended: every leaf symbol has a bit-string entry, every other symbol
\* has none; the entries are non-empty when the root is an interior node,
\* and the only entry is the empty string when the tree is a single leaf.
C6_EntriesForLeaves ==
  pc = "coded" =>
    \A s \in Symbols :
      IF s \in LeafSymbols(mem, H)
      THEN /\ IsBitString(codetable[s])
           /\ Len(codetable[s]) > 0 <=> ~is_htree_leaf(mem, H)
      ELSE codetable[s] = NoEntry

\* the code table of a single-leaf tree: the leaf's entry is the empty string
C6_Witness ==
  /\ pc = "coded"
  /\ is_htree_leaf(mem, H)
  /\ codetable[mem[H].value] = <<>>

\* the code table of a tree of three leaves with three different symbols
C6_WitnessInterior ==
  /\ pc = "coded"
  /\ Cardinality(LeafSymbols(mem, H)) = 3
  /\ \A s \in LeafSymbols(mem, H) : Len(codetable[s]) > 0

(* -------------------- decode_src on any bit string --------------------- *)

NextDecode ==
  \/ FindLenStart
  \/ FindLenStep
  \/ FindLenEnd
  \/ ParseStep
  \/ ParseEnd

\* a tree with an interior root (build_htree returns no other) and a string
\* of '0'/'1' characters
InitDecode ==
  /\ pc = "encoded"
  /\ mem \in SampleHeaps(2)
  /\ is_htree(mem, 1)
  /\ code \in SeqsUpTo(Bit, MaxCodeLen)
  /\ freed = <<>>
  /\ IdleTree

SpecDecode == InitDecode /\ [][NextDecode]_vars

\* the same, the string being of any characters
InitDecodeRaw ==
  /\ pc = "encoded"
  /\ mem \in SampleHeaps(2)
  /\ is_htree(mem, 1)
  /\ code \in SeqsUpTo(Bit \cup {"x"}, MaxCodeLen)
  /\ freed = <<>>
  /\ IdleTree

SpecDecodeRaw == InitDecodeRaw /\ [][NextDecode]_vars

\* where the traversal pointer is after the bits k.. of c, from node n:
\* '0' descends left, '1' descends right, a leaf resets it to the root
RECURSIVE PointerAfter(_, _, _, _, _)
PointerAfter(m, root, n, c, k) ==
  IF k > Len(c) THEN n
  ELSE LET child == IF c[k] = "0" THEN m[n].left
                    ELSE IF c[k] = "1" THEN m[n].right
                    ELSE NULL
       IN PointerAfter(m, root,
                       IF m[child].left = NULL THEN root ELSE child, c, k + 1)

\* C4: decode_src exits with the truncated-code message, with no length
\* stored, no symbol array and the emit pass never entered, exactly when the
\* traversal pointer is not back at the root after the last bit.
C4_TruncatedIff ==
  /\ pc = "exit" =>
       /\ PointerAfter(mem, H, H, code, 1) # H
       /\ msg = "Invalid code to decode!"
       /\ src_len = Unset /\ res = <<>> /\ array_ind = 0
       /\ ~ENABLED NextDecode
  /\ pc \in {"parse_code", "decoded"} => PointerAfter(mem, H, H, code, 1) = H

\* the tree a:"0", b:"10", c:"11" and the code "1": the decode has failed
C4_Witness ==
  /\ pc = "exit"
  /\ code = <<"1">>
  /\ htree_to_codetable(mem, H) = (0 :> <<"0">> @@ 1 :> <<"1", "0">> @@ 2 :> <<"1", "1">>)

\* a code that ends on a code boundary is decoded
C4_WitnessDecoded ==
  /\ pc = "decoded"
  /\ code = <<"1", "0", "0">>
  /\ htree_to_codetable(mem, H) = (0 :> <<"0">> @@ 1 :> <<"1", "0">> @@ 2 :> <<"1", "1">>)
  /\ res = <<1, 0>>

\* C7: a character other than '0' and '1' is never consumed by the
\* traversal, and a bit string holding one is never decoded.
C7_NonBitRejected ==
  \A k \in 1 .. Len(code) :
    code[k] \notin Bit =>
      /\ ~(pc = "find_len" /\ i >= k)
      /\ pc \notin {"parse_code", "decoded"}

(* ------------------- Task 7: packing and unpacking --------------------- *)

\* bits per byte
step == 8
\* place value of the first bit of a byte
TopPlace == 128
\* uint8_t arithmetic is modulo 256
Uint8 == 256

get_res_len_plus_one(bits_len) == (bits_len \div step) + 1

get_res_len(bits_len) ==
  IF bits_len % step = 0 THEN bits_len \div step ELSE (bits_len \div step) + 1

\* the character at offset k of the NUL-terminated string bs
char_at(bs, k) == IF k < Len(bs) THEN bs[k + 1] ELSE NUL

\* the inner loop of populate_byte_array from its iteration j
RECURSIVE byte_from(_, _, _, _, _)
byte_from(bs, start, j, byte, placeval) ==
  IF j >= step THEN byte
  ELSE IF char_at(bs, start + j) = NUL THEN byte
  ELSE byte_from(bs, start, j + 1,
                 IF char_at(bs, start + j) = "1"
                 THEN (byte + placeval * 1) % Uint8 ELSE byte,
                 placeval \div 2)

populate_byte_array(bytes_len, bs) ==
  [k \in 1 .. bytes_len |-> byte_from(bs, (k - 1) * step, 0, 0, TopPlace)]

pack(bs) == populate_byte_array(get_res_len(strlen(bs)), bs)

RECURSIVE Pow2(_)
Pow2(n) == IF n = 0 THEN 1 ELSE 2 * Pow2(n - 1)

byte2bit_low_first(byte) ==
  [k \in 1 .. step |-> IF (byte \div Pow2(k - 1)) % 2 = 1 THEN "1" ELSE "0"]

\* the 8 characters of a byte, most significant bit first
byte2bit(byte) ==
  [k \in 1 .. step |->
     LET shift_place == step - (k - 1) - 1
         digit == (byte \div Pow2(shift_place)) % 2
     IN IF digit = 1 THEN "1" ELSE "0"]

unpack(c, len) ==
  c_string([k \in 1 .. (step * len + 1) |->
              IF k <= step * len
              THEN byte2bit(c[((k - 1) \div step) + 1])[((k - 1) % step) + 1]
              ELSE NUL])

Pack ==
  /\ pc = "pack"
  /\ bytes' = pack(code)
  /\ pc' = "packed"
  /\ UNCHANGED <<table, src, mem, Q, tree1, tree2, H, codetable, code, node, i,
                 count, array_ind, src_len, res, msg, bits, stack, freed, uaf>>

Unpack ==
  /\ pc = "packed"
  /\ bits' = unpack(bytes, Len(bytes))
  /\ pc' = "unpacked"
  /\ UNCHANGED <<table, src, mem, Q, tree1, tree2, H, codetable, code, node, i,
                 count, array_ind, src_len, res, msg, bytes, stack, freed, uaf>>

InitPack ==
  /\ pc = "pack"
  /\ code \in SeqsUpTo(Bit, MaxBits)
  /\ table = [s \in Symbols |-> 0] /\ src = <<>>
  /\ Idle

NextPack ==
  \/ Pack
  \/ Unpack

SpecPack == InitPack /\ [][NextPack]_vars

\* C5: pack(s) has ceil(len(s)/8) bytes, and unpacking them gives s followed
\* by '0' characters up to the next multiple of 8.
C5_PackRoundTrip ==
  /\ pc \in {"packed", "unpacked"} =>
       /\ Len(bytes) * 8 >= Len(code)
       /\ Len(bytes) * 8 < Len(code) + 8
       /\ \A k \in 1 .. Len(bytes) : bytes[k] \in 0 .. 255
  /\ pc = "unpacked" =>
       /\ Len(bits) = 8 * Len(bytes)
       /\ \A k \in 1 .. Len(bits) :
            bits[k] = IF k <= Len(code) THEN code[k] ELSE "0"

\* the 9 bits 000101011 packed into 0x15 0x80 and unpacked into 16 characters
C5_Witness ==
  /\ pc = "unpacked"
  /\ code = <<"0", "0", "0", "1", "0", "1", "0", "1", "1">>
  /\ bytes = <<21, 128>>
  /\ Len(bits) = 16

(* ----------------------------- free_htree ------------------------------ *)

\* One step of free_htree in its innermost call.  A frame is the call's
\* argument and where the call is: "entry" (the leaf test and its free),
\* "left" and "right" (the two recursive calls), "free" (the last free).
\* The leaf case does not return, so the call goes on to read the node it
\* has released; what that read yields is undefined: the run stops, or the
\* released node still holds its fields.  Reading a field of NULL stops the
\* run.
FreeHtree ==
  /\ pc = "free_htree"
  /\ stack # <<>>
  /\ LET top == Len(stack)
         tree == stack[top].tree
         at == stack[top].at
         goto(a) == [stack EXCEPT ![top].at = a]
         call(a, arg) == Append(goto(a), [tree |-> arg, at |-> "entry"])
     IN CASE at = "entry" ->
               /\ IF tree # NULL /\ is_htree_leaf(mem, tree)
                  THEN freed' = [freed EXCEPT ![tree] = @ + 1]
                  ELSE freed' = freed
               /\ uaf' = (uaf \/ (tree # NULL /\ freed[tree] > 0))
               /\ stack' = goto("left")
               /\ pc' = pc
          [] at \in {"left", "right"} ->
               LET child == IF at = "left" THEN mem[tree].left ELSE mem[tree].right
                   after == IF at = "left" THEN "right" ELSE "free"
               IN IF tree = NULL
                  THEN pc' = "crash" /\ UNCHANGED <<stack, freed, uaf>>
                  ELSE IF freed[tree] > 0
                  THEN /\ uaf' = TRUE
                       /\ freed' = freed
                       /\ \E outcome \in {"stop", "stale"} :
                            IF outcome = "stop"
                            THEN pc' = "crash" /\ stack' = stack
                            ELSE pc' = pc /\ stack' = call(after, child)
                  ELSE /\ stack' = call(after, child)
                       /\ UNCHANGED <<pc, freed, uaf>>
          [] at = "free" ->
               /\ freed' = [freed EXCEPT ![tree] = @ + 1]
               /\ stack' = SubSeq(stack, 1, top - 1)
               /\ pc' = IF top = 1 THEN "freed" ELSE pc
               /\ uaf' = uaf
  /\ UNCHANGED <<table, src, mem, Q, tree1, tree2, H, codetable, code, node, i,
                 count, array_ind, src_len, res, msg, bytes, bits>>

InitFree ==
  /\ pc = "free_htree"
  /\ mem \in SampleHeaps(1)
  /\ is_htree(mem, 1)
  /\ code = <<>>
  /\ freed = [k \in 1 .. Len(mem) |-> 0]
  /\ table = [s \in Symbols |-> 0] /\ src = <<>>
  /\ Q = {} /\ tree1 = NULL /\ tree2 = NULL /\ H = 1
  /\ codetable = [s \in Symbols |-> NoEntry]
  /\ node = NULL /\ i = 0 /\ count = 0 /\ array_ind = 0
  /\ src_len = Unset /\ res = <<>> /\ msg = ""
  /\ bytes = <<>> /\ bits = <<>> /\ uaf = FALSE
  /\ stack = <<[tree |-> 1, at |-> "entry"]>>

SpecFree == InitFree /\ [][FreeHtree]_vars

\* C10: free_htree releases every node of the tree exactly once, reads no
\* node after releasing it, and runs to its end.
C10_ReleasedOnce ==
  /\ ~uaf
  /\ pc # "crash"
  /\ \A a \in 1 .. Len(freed) : freed[a] <= 1
  /\ pc = "freed" => \A a \in 1 .. Len(freed) : freed[a] = 1

====
